---------------------------- MODULE Spec2Model ----------------------------
(***************************************************************************)
(* A model of src/try.py: the retry decorator, the Calculator and its      *)
(* history list, the FileManager context manager, fibonacci, is_prime /    *)
(* find_primes and number_generator.  The snippets are independent, so     *)
(* each has its own specification over its own variables; the variables of *)
(* the others stay at their initial values.                                *)
(***************************************************************************)
EXTENDS Integers, Sequences, FiniteSets, TLC

VARIABLES
    \* retry(max_attempts)(func) -- one execution of wrapper()
    max_attempts,   \* the decorator's argument
    attempt,        \* the for-loop variable (-1 before the first iteration)
    rpc,            \* position in wrapper(): "for", "try", "done"
    calls,          \* what each call of func did, in order
    printed,        \* the "Attempt k failed" lines printed
    outcome,        \* how wrapper() ended
    \* Calculator and the lists its caller holds
    heap,           \* the list objects: heap[r] is the content of list r
    held,           \* the references the caller keeps (results of get_history)
    call,           \* the last method call or caller operation
    ret,            \* what the last method call returned or raised
    okCalls,        \* number of arithmetic calls that returned a result
    \* FileManager
    fm_file,        \* fm_file[m] is self.file of manager m (0 is None)
    handles,        \* handles[h] is "open" or "closed", for every file opened
    blocks,         \* the with-blocks entered and not yet exited, innermost last
    exc,            \* TRUE while an exception is propagating out of a block
    \* fibonacci
    fib_n, fib, fib_i, fib_pc,
    \* find_primes / is_prime
    limit, num, primes, pr_pc,
    \* number_generator
    gens

retryVars == <<max_attempts, attempt, rpc, calls, printed, outcome>>
calcVars  == <<heap, held, call, ret, okCalls>>
fileVars  == <<fm_file, handles, blocks, exc>>
fibVars   == <<fib_n, fib, fib_i, fib_pc>>
primeVars == <<limit, num, primes, pr_pc>>
genVars   == <<gens>>
vars == <<retryVars, calcVars, fileVars, fibVars, primeVars, genVars>>

\* what each snippet leaves alone: the variables of the others
notRetry == <<calcVars, fileVars, fibVars, primeVars, genVars>>
notCalc  == <<retryVars, fileVars, fibVars, primeVars, genVars>>
notFile  == <<retryVars, calcVars, fibVars, primeVars, genVars>>
notFib   == <<retryVars, calcVars, fileVars, primeVars, genVars>>
notPrime == <<retryVars, calcVars, fileVars, fibVars, genVars>>
notGen   == <<retryVars, calcVars, fileVars, fibVars, primeVars>>

\* Python's None
None == [kind |-> "None"]

Max(S) == CHOOSE x \in S : \A y \in S : y <= x
Range(s) == {s[i] : i \in 1..Len(s)}
IsPrefix(s, t) == Len(s) <= Len(t) /\ SubSeq(t, 1, Len(s)) = s
Last(s) == s[Len(s)]

(***************************************************************************)
(* retry                                                                   *)
(***************************************************************************)
MaxAttempts == 4

\* What func may do: return a value, raise an exception derived from
\* Exception, or raise one derived from BaseException only.
RetVals == {"r1", "r2"}
Exceptions == {"ValueError", "IOError"}
BaseOnly == {"KeyboardInterrupt"}

RetryIdle ==
    /\ max_attempts = 0
    /\ attempt = -1
    /\ rpc = "idle"
    /\ calls = <<>>
    /\ printed = <<>>
    /\ outcome = None

RetryInit ==
    /\ max_attempts \in -1..MaxAttempts
    /\ attempt = -1
    /\ rpc = "for"
    /\ calls = <<>>
    /\ printed = <<>>
    /\ outcome = None

\* range(max_attempts) has a value after `a`
RangeHasNextOff(a, m) == a + 1 <= m
RangeHasNext(a, m) == a + 1 < m

\* `except Exception` catches x
Catches(x) == x \in Exceptions

\* attempt == max_attempts - 1
IsLastAttemptOff(a, m) == a = m
IsLastAttempt(a, m) == a = m - 1

\* line 207: the for statement takes the next value of range(max_attempts),
\* or the loop ends and line 214 returns None
ForNext ==
    /\ rpc = "for"
    /\ IF RangeHasNext(attempt, max_attempts)
          THEN /\ attempt' = attempt + 1
               /\ rpc' = "try"
               /\ UNCHANGED outcome
          ELSE /\ outcome' = [kind |-> "return", value |-> None, line |-> 214]
               /\ rpc' = "done"
               /\ UNCHANGED attempt
    /\ UNCHANGED <<max_attempts, calls, printed, notRetry>>

\* line 209: func returns v, and wrapper returns it
CallReturns(v) ==
    /\ rpc = "try"
    /\ calls' = Append(calls, [kind |-> "return", value |-> v])
    /\ outcome' = [kind |-> "return", value |-> v, line |-> 209]
    /\ rpc' = "done"
    /\ UNCHANGED <<max_attempts, attempt, printed, notRetry>>

\* lines 209-213: func raises x (the exception object of this call)
CallRaises(x) ==
    /\ rpc = "try"
    /\ LET e == [cls |-> x, call |-> Len(calls) + 1] IN
       /\ calls' = Append(calls, [kind |-> "raise", value |-> e])
       /\ IF ~Catches(x)
             THEN /\ outcome' = [kind |-> "raise", value |-> e, line |-> 209]
                  /\ rpc' = "done"
                  /\ UNCHANGED printed
             ELSE IF IsLastAttempt(attempt, max_attempts)
                     THEN /\ outcome' = [kind |-> "raise", value |-> e, line |-> 212]
                          /\ rpc' = "done"
                          /\ UNCHANGED printed
                     ELSE /\ printed' = Append(printed, <<attempt + 1, x>>)
                          /\ rpc' = "for"
                          /\ UNCHANGED outcome
    /\ UNCHANGED <<max_attempts, attempt, notRetry>>

RetryNext ==
    \/ ForNext
    \/ \E v \in RetVals : CallReturns(v)
    \/ \E x \in Exceptions \cup BaseOnly : CallRaises(x)


(***************************************************************************)
(* Calculator                                                              *)
(***************************************************************************)
MaxVal == 1
MaxCalls == 2

\* the operands the calls are made with
Operands == (-1)..MaxVal

\* Python numbers: an int, or the float a true division gives (the exact
\* quotient num/den in lowest terms, with the sign kept apart because of -0.0)
IntVal(n) == [kind |-> "int", n |-> n]
Abs(n) == IF n < 0 THEN -n ELSE n
RECURSIVE Gcd(_, _)
Gcd(a, b) == IF b = 0 THEN a ELSE Gcd(b, a % b)

\* a / b for ints a and b # 0
TrueDiv(a, b) ==
    LET g == Gcd(Abs(a), Abs(b)) IN
    [kind |-> "float",
     neg  |-> IF a = 0 THEN b < 0 ELSE (a < 0) # (b < 0),
     num  |-> Abs(a) \div g,
     den  |-> Abs(b) \div g]

Digit(d) ==
    CASE d = 0 -> "0" [] d = 1 -> "1" [] d = 2 -> "2" [] d = 3 -> "3"
      [] d = 4 -> "4" [] d = 5 -> "5" [] d = 6 -> "6" [] d = 7 -> "7"
      [] d = 8 -> "8" [] d = 9 -> "9"

RECURSIVE StrNat(_)
StrNat(n) == IF n < 10 THEN Digit(n) ELSE StrNat(n \div 10) \o Digit(n % 10)

\* the decimal digits of r/den after the point, at most k of them
RECURSIVE FracDigits(_, _, _)
FracDigits(r, den, k) ==
    IF r = 0 \/ k = 0 THEN ""
    ELSE Digit((r * 10) \div den) \o FracDigits((r * 10) % den, den, k - 1)

\* str() of a number, as an f-string formats it.  The repr of a float is the
\* shortest string that reads back as the same double; for the quotients of
\* the operands used here that is the decimal expansion cut after 16 digits.
Str(v) ==
    IF v.kind = "int"
       THEN (IF v.n < 0 THEN "-" ELSE "") \o StrNat(Abs(v.n))
       ELSE LET f == FracDigits(v.num % v.den, v.den, 16) IN
            (IF v.neg THEN "-" ELSE "") \o StrNat(v.num \div v.den) \o "."
                \o (IF f = "" THEN "0" ELSE f)

\* f"{a} {sym} {b} = {result}"
FormatSwapped(a, sym, b, result) ==
    Str(IntVal(b)) \o " " \o sym \o " " \o Str(IntVal(a)) \o " = " \o Str(result)
Format(a, sym, b, result) ==
    Str(IntVal(a)) \o " " \o sym \o " " \o Str(IntVal(b)) \o " = " \o Str(result)

\* the list objects still referenced: self.history (object 1) and the lists
\* the caller holds; a returned list the caller dropped is gone
Live(h) == SubSeq(h, 1, Max({1} \cup Range(held)))

\* list.append on self.history
HistoryInsertFirst(h, entry) == [h EXCEPT ![1] = <<entry>> \o @]
HistoryAppend(h, entry) == [h EXCEPT ![1] = Append(@, entry)]

\* list.copy(): a new list object with the same items
ListAlias(h, r) == [heap |-> h, ref |-> r]
ListCopy(h, r) == [heap |-> Append(h, h[r]), ref |-> Len(h) + 1]

\* `b == 0` in divide
IsZeroNever(b) == FALSE
IsZero(b) == b = 0

Raise(cls) == [kind |-> "raise", cls |-> cls]

\* line 35-36: Calculator()
CalcInit ==
    /\ heap = << <<>> >>
    /\ held = <<>>
    /\ call = [op |-> "__init__", args |-> <<>>]
    /\ ret = None
    /\ okCalls = 0

\* an arithmetic method that returns: the entry is appended, the result returned
Returns(op, a, b, sym, result) ==
    /\ heap' = HistoryAppend(Live(heap), Format(a, sym, b, result))
    /\ ret' = result
    /\ call' = [op |-> op, args |-> <<a, b>>]
    /\ okCalls' = okCalls + 1
    /\ UNCHANGED <<held, notCalc>>

\* an arithmetic method that raises cls
Raises(op, a, b, cls) ==
    /\ heap' = Live(heap)
    /\ ret' = Raise(cls)
    /\ call' = [op |-> op, args |-> <<a, b>>]
    /\ UNCHANGED <<held, okCalls, notCalc>>

\* lines 38-41
Add(a, b) == okCalls < MaxCalls /\ Returns("add", a, b, "+", IntVal(a + b))

\* lines 43-46
Subtract(a, b) == okCalls < MaxCalls /\ Returns("subtract", a, b, "-", IntVal(a - b))

\* lines 48-51
Multiply(a, b) == okCalls < MaxCalls /\ Returns("multiply", a, b, "*", IntVal(a * b))

\* lines 53-58; `a / b` itself raises ZeroDivisionError for b = 0
Divide(a, b) ==
    IF IsZero(b) THEN Raises("divide", a, b, "ValueError")
    ELSE IF b = 0 THEN Raises("divide", a, b, "ZeroDivisionError")
    ELSE okCalls < MaxCalls /\ Returns("divide", a, b, "/", TrueDiv(a, b))

\* lines 60-61
GetHistory ==
    /\ LET c == ListCopy(Live(heap), 1) IN
       /\ heap' = c.heap
       /\ ret' = [kind |-> "list", ref |-> c.ref]
    /\ call' = [op |-> "get_history", args |-> <<>>]
    /\ UNCHANGED <<held, okCalls, notCalc>>

\* the calls made on the Calculator, with operands from S
CalcCalls(S) ==
    \/ \E a, b \in S : Add(a, b)
    \/ \E a, b \in S : Subtract(a, b)
    \/ \E a, b \in S : Multiply(a, b)
    \/ \E a, b \in S : Divide(a, b)
    \/ GetHistory

CalcNext == CalcCalls(Operands)

(***************************************************************************)
(* The caller of get_history: it binds the returned list to a variable h   *)
(* and then appends to it, pops from it and clears it.                     *)
(***************************************************************************)
MaxListLen == 2

CallerItems == {"x"}

\* h = <the list get_history just returned>
Keep ==
    /\ held = <<>>
    /\ ret.kind = "list"
    /\ held' = <<ret.ref>>
    /\ ret' = None
    /\ call' = [op |-> "h =", args |-> <<>>]
    /\ UNCHANGED <<heap, okCalls, notCalc>>

CallerOp(op, new) ==
    /\ held # <<>>
    /\ heap' = [heap EXCEPT ![held[1]] = new]
    /\ call' = [op |-> op, args |-> <<>>]
    /\ UNCHANGED <<held, ret, okCalls, notCalc>>

\* h.append(x)
CallerAppend(x) ==
    /\ held # <<>>
    /\ Len(heap[held[1]]) < MaxListLen
    /\ CallerOp("h.append", Append(heap[held[1]], x))

\* h.pop()
CallerPop ==
    /\ held # <<>>
    /\ heap[held[1]] # <<>>
    /\ CallerOp("h.pop", SubSeq(heap[held[1]], 1, Len(heap[held[1]]) - 1))

\* h.clear()
CallerClear == held # <<>> /\ CallerOp("h.clear", <<>>)

AliasNext ==
    \/ CalcCalls({1})
    \/ Keep
    \/ \E x \in CallerItems : CallerAppend(x)
    \/ CallerPop
    \/ CallerClear

ArithOps == {"add", "subtract", "multiply", "divide"}
CallerOps == {"h.append", "h.pop", "h.clear"}

\* self.history
History == heap[1]

CalcIdle ==
    /\ heap = << <<>> >>
    /\ held = <<>>
    /\ call = [op |-> "none", args |-> <<>>]
    /\ ret = None
    /\ okCalls = 0

(***************************************************************************)
(* FileManager                                                             *)
(***************************************************************************)
NumManagers == 2
MaxDepth == 3
MaxOpens == 3

Managers == 1..NumManagers

\* lines 224-227: every FileManager constructed, none entered
FileInit ==
    /\ fm_file = [m \in Managers |-> 0]
    /\ handles = <<>>
    /\ blocks = <<>>
    /\ exc = FALSE

FileIdle ==
    /\ fm_file = <<>>
    /\ handles = <<>>
    /\ blocks = <<>>
    /\ exc = FALSE

\* lines 234-235: close self.file if it is set (closing again does nothing)
CloseFile(hs, f) == IF f # 0 THEN [hs EXCEPT ![f] = "closed"] ELSE hs

\* lines 229-231, `with m as f:` where open() succeeds
Enter(m) ==
    /\ ~exc
    /\ Len(blocks) < MaxDepth
    /\ Len(handles) < MaxOpens
    /\ handles' = Append(handles, "open")
    /\ fm_file' = [fm_file EXCEPT ![m] = Len(handles) + 1]
    /\ blocks' = Append(blocks, [mgr |-> m, f |-> Len(handles) + 1])
    /\ UNCHANGED <<exc, notFile>>

\* line 230, open() raises: nothing is assigned, no block is entered
EnterFails(m) ==
    /\ ~exc
    /\ exc' = TRUE
    /\ UNCHANGED <<fm_file, handles, blocks, notFile>>

\* the body of the innermost block raises
BodyRaises ==
    /\ ~exc
    /\ blocks # <<>>
    /\ exc' = TRUE
    /\ UNCHANGED <<fm_file, handles, blocks, notFile>>

\* lines 233-235: the innermost block ends, normally or by the exception on
\* its way out; __exit__ returns None, so the exception goes on
Exit ==
    /\ blocks # <<>>
    /\ handles' = CloseFile(handles, fm_file[Last(blocks).mgr])
    /\ blocks' = SubSeq(blocks, 1, Len(blocks) - 1)
    /\ UNCHANGED <<fm_file, exc, notFile>>

\* the exception has left every block and is caught by the caller
Caught ==
    /\ exc
    /\ blocks = <<>>
    /\ exc' = FALSE
    /\ UNCHANGED <<fm_file, handles, blocks, notFile>>

FileNext ==
    \/ \E m \in Managers : Enter(m)
    \/ \E m \in Managers : EnterFails(m)
    \/ BodyRaises
    \/ Exit
    \/ Caught

(***************************************************************************)
(* fibonacci                                                               *)
(***************************************************************************)
MaxN == 15

\* line 77: fib.append(fib[i-1] + fib[i-2]); Python's fib[k] is fib[k+1] here
FibStepSame(f, i) == Append(f, f[i] + f[i])
FibStep(f, i) == Append(f, f[i] + f[i - 1])

\* lines 68-75: the early returns, and the list the loop starts from
FibStart(n) == IF n <= 0 THEN <<>> ELSE IF n = 1 THEN <<0>> ELSE <<0, 1>>

\* lines 76-78: for i in range(2, n)
RECURSIVE FibLoop(_, _, _)
FibLoop(f, i, n) == IF i < n THEN FibLoop(FibStep(f, i), i + 1, n) ELSE f

\* fibonacci(n) as a function
Fibonacci(n) == FibLoop(FibStart(n), 2, n)

FibInit ==
    /\ fib_n \in (-2)..MaxN
    /\ fib = <<>>
    /\ fib_i = 0
    /\ fib_pc = "call"

FibIdle ==
    /\ fib_n = 0
    /\ fib = <<>>
    /\ fib_i = 0
    /\ fib_pc = "idle"

\* lines 68-75
FibEnter ==
    /\ fib_pc = "call"
    /\ fib' = FibStart(fib_n)
    /\ fib_i' = 2
    /\ fib_pc' = IF fib_n <= 2 THEN "done" ELSE "loop"
    /\ UNCHANGED <<fib_n, notFib>>

\* lines 76-78: one iteration of the loop, or its end and the return
FibIterate ==
    /\ fib_pc = "loop"
    /\ IF fib_i < fib_n
          THEN /\ fib' = FibStep(fib, fib_i)
               /\ fib_i' = fib_i + 1
               /\ UNCHANGED fib_pc
          ELSE /\ fib_pc' = "done"
               /\ UNCHANGED <<fib, fib_i>>
    /\ UNCHANGED <<fib_n, notFib>>

FibNext == FibEnter \/ FibIterate

(***************************************************************************)
(* is_prime, find_primes                                                   *)
(***************************************************************************)
MaxLimit == 30

\* int(num ** 0.5): the integer square root (the float square root is exact
\* enough for that at every num a double holds exactly)
Isqrt(n) == CHOOSE r \in 0..n : r * r <= n /\ (r + 1) * (r + 1) > n

\* the stop of range(3, int(num ** 0.5) + 1, 2)
TrialStopShort(n) == Isqrt(n)
TrialStop(n) == Isqrt(n) + 1

\* lines 90-93
RECURSIVE TrialLoop(_, _, _)
TrialLoop(n, i, stop) ==
    IF i >= stop THEN TRUE
    ELSE IF n % i = 0 THEN FALSE
    ELSE TrialLoop(n, i + 2, stop)

\* lines 81-93
is_prime(n) ==
    IF n < 2 THEN FALSE
    ELSE IF n = 2 THEN TRUE
    ELSE IF n % 2 = 0 THEN FALSE
    ELSE TrialLoop(n, 3, TrialStop(n))

PrimesInit ==
    /\ limit \in (-2)..MaxLimit
    /\ num = 2
    /\ primes = <<>>
    /\ pr_pc = "loop"

PrimesIdle ==
    /\ limit = 0
    /\ num = 2
    /\ primes = <<>>
    /\ pr_pc = "idle"

\* line 98: the comprehension takes the next num of range(2, limit + 1) and
\* keeps it if is_prime(num), or the range is used up and the list returned
PrimesIterate ==
    /\ pr_pc = "loop"
    /\ IF num < limit + 1
          THEN /\ primes' = IF is_prime(num) THEN Append(primes, num) ELSE primes
               /\ num' = num + 1
               /\ UNCHANGED pr_pc
          ELSE /\ pr_pc' = "done"
               /\ UNCHANGED <<num, primes>>
    /\ UNCHANGED <<limit, notPrime>>

PrimesNext == PrimesIterate

(***************************************************************************)
(* number_generator                                                        *)
(***************************************************************************)
MaxEnd == 2
MaxStep == 2

\* two generator objects, from two calls of number_generator
Slots == {"g1", "g2"}

\* the consumer asks a generator for at most this many values
MaxYield == MaxEnd + 2

NoGen == [pc |-> "none", start |-> 0, end |-> 0, step |-> 0,
          current |-> <<>>, yielded |-> <<>>]

GenInit == gens = [g \in Slots |-> NoGen]

GenIdle == gens = <<>>

\* line 184: while current < end
GenContinues(c, e) == c < e

\* line 186: current += step
GenAdvanceOne(c, st) == c + 1
GenAdvance(c, st) == c + st

\* line 181: the call makes a generator object; no line of the body runs yet
\* (the local `current` is not bound: <<>>)
GenCall(g, s, e, st) ==
    /\ gens[g].pc = "none"
    /\ gens' = [gens EXCEPT ![g] = [pc |-> "created", start |-> s, end |-> e,
                                    step |-> st, current |-> <<>>,
                                    yielded |-> <<>>]]
    /\ UNCHANGED notGen

\* next(g): the body runs from where it stood to the next yield (line 185)
\* or to its end (StopIteration); it starts at line 183 and resumes at 186
GenResume(g) ==
    /\ gens[g].pc \in {"created", "suspended"}
    /\ Len(gens[g].yielded) < MaxYield
    /\ LET c == IF gens[g].pc = "created"
                   THEN gens[g].start
                   ELSE GenAdvance(gens[g].current[1], gens[g].step)
       IN  gens' = [gens EXCEPT ![g] =
                IF GenContinues(c, gens[g].end)
                   THEN [@ EXCEPT !.pc = "suspended", !.current = <<c>>,
                                  !.yielded = Append(@, c)]
                   ELSE [@ EXCEPT !.pc = "exhausted", !.current = <<c>>]]
    /\ UNCHANGED notGen

GenNext ==
    \/ \E g \in Slots, s \in 0..MaxEnd, e \in 0..MaxEnd, st \in (-1)..MaxStep :
          GenCall(g, s, e, st)
    \/ \E g \in Slots : GenResume(g)

(***************************************************************************)
(* The specifications                                                      *)
(***************************************************************************)
RetrySpecInit == RetryInit /\ CalcIdle /\ FileIdle /\ FibIdle /\ PrimesIdle /\ GenIdle

RetrySpec ==
    /\ RetrySpecInit
    /\ [][RetryNext]_vars

CalcSpecInit == RetryIdle /\ CalcInit /\ FileIdle /\ FibIdle /\ PrimesIdle /\ GenIdle

CalcSpec ==
    /\ CalcSpecInit
    /\ [][CalcNext]_vars

AliasSpecInit == RetryIdle /\ CalcInit /\ FileIdle /\ FibIdle /\ PrimesIdle /\ GenIdle

AliasSpec ==
    /\ AliasSpecInit
    /\ [][AliasNext]_vars

FileSpecInit == RetryIdle /\ CalcIdle /\ FileInit /\ FibIdle /\ PrimesIdle /\ GenIdle

FileSpec ==
    /\ FileSpecInit
    /\ [][FileNext]_vars

FibSpecInit == RetryIdle /\ CalcIdle /\ FileIdle /\ FibInit /\ PrimesIdle /\ GenIdle

FibSpec ==
    /\ FibSpecInit
    /\ [][FibNext]_vars

PrimesSpecInit == RetryIdle /\ CalcIdle /\ FileIdle /\ FibIdle /\ PrimesInit /\ GenIdle

PrimesSpec ==
    /\ PrimesSpecInit
    /\ [][PrimesNext]_vars

\* the consumer's for loop keeps asking each generator for its next value
GenSpecInit == RetryIdle /\ CalcIdle /\ FileIdle /\ FibIdle /\ PrimesIdle /\ GenInit

GenSpec ==
    /\ GenSpecInit
    /\ [][GenNext]_vars
    /\ \A g \in Slots : WF_vars(GenResume(g))

(***************************************************************************)
(* The claims                                                              *)
(***************************************************************************)
RetryDone == rpc = "done"

\* every call of func before the last one raised
EarlierCallsRaised == \A k \in 1..(Len(calls) - 1) : calls[k].kind = "raise"

\* wrapper returned what the last call of func returned
ReturnedLastResult ==
    /\ Last(calls).kind = "return"
    /\ outcome = [kind |-> "return", value |-> Last(calls).value, line |-> 209]

\* wrapper raised the exception object the last call of func raised
RaisedLastException ==
    /\ Last(calls).kind = "raise"
    /\ outcome.kind = "raise"
    /\ outcome.value = Last(calls).value

\* C1 as stated: for max_attempts >= 1 the wrapper calls func until the
\* first call that does not raise and at most max_attempts times; it returns
\* that call's result, and if all max_attempts calls raise it re-raises the
\* exception of the last call.
C1_AsStated ==
    max_attempts >= 1 =>
        /\ Len(calls) <= max_attempts
        /\ EarlierCallsRaised
        /\ ~RetryDone => Len(calls) < max_attempts
        /\ RetryDone =>
              /\ calls # <<>>
              /\ \/ ReturnedLastResult
                 \/ Len(calls) = max_attempts /\ RaisedLastException

\* C1 as amended: the same, where the calls that are retried are those that
\* raise an exception derived from Exception; a call that raises any other
\* exception ends the wrapper at once, which raises that exception without a
\* further call.
C1_RetriesOnException ==
    max_attempts >= 1 =>
        /\ Len(calls) <= max_attempts
        /\ \A k \in 1..(Len(calls) - 1) :
              calls[k].kind = "raise" /\ calls[k].value.cls \in Exceptions
        /\ ~RetryDone => Len(calls) < max_attempts
        /\ RetryDone =>
              /\ calls # <<>>
              /\ \/ ReturnedLastResult
                 \/ /\ RaisedLastException
                    /\ Last(calls).value.cls \in Exceptions
                    /\ Len(calls) = max_attempts
                 \/ /\ RaisedLastException
                    /\ Last(calls).value.cls \notin Exceptions

\* all three attempts raised an Exception and the wrapper re-raised the last
C1_Witness ==
    /\ RetryDone
    /\ max_attempts = 3
    /\ Len(calls) = 3
    /\ RaisedLastException
    /\ outcome.value = [cls |-> "IOError", call |-> 3]

\* C10: with max_attempts <= 0 the wrapper never calls func, raises nothing
\* and returns None; the `return None` of line 214 is reached in no other
\* case: for max_attempts >= 1 the wrapper returns a result of func or raises.
C10_ReturnNoneOnlyWithoutAttempts ==
    /\ max_attempts <= 0 =>
          /\ calls = <<>>
          /\ rpc # "try"
          /\ RetryDone =>
                outcome = [kind |-> "return", value |-> None, line |-> 214]
    /\ (RetryDone /\ outcome.line = 214) => max_attempts <= 0
    /\ (RetryDone /\ max_attempts >= 1) =>
          /\ calls # <<>>
          /\ ReturnedLastResult \/ RaisedLastException

C10_Witness ==
    /\ max_attempts = -1
    /\ RetryDone
    /\ calls = <<>>
    /\ outcome.value = None

\* C2: the history is append-only: over any sequence of add, subtract,
\* multiply, divide (failing ones too) and get_history calls the history
\* before a call is a prefix of the history after it, and its length is the
\* number of arithmetic calls that returned a result.
C2_HistoryAppendOnly ==
    /\ [][IsPrefix(History, History')]_vars
    /\ [](Len(History) = okCalls)

\* two entries logged, then a divide by zero that raised
C2_Witness ==
    /\ Len(History) = 2
    /\ okCalls = 2
    /\ call = [op |-> "divide", args |-> <<1, 0>>]
    /\ ret.kind = "raise"

IsResultOf(v, op, a, b) ==
    CASE op = "add"      -> v = IntVal(a + b)
      [] op = "subtract" -> v = IntVal(a - b)
      [] op = "multiply" -> v = IntVal(a * b)
      [] op = "divide"   -> /\ v.kind = "float"
                            /\ v.den > 0
                            /\ (IF v.neg THEN -v.num ELSE v.num) * b = a * v.den

Symbol(op) ==
    CASE op = "add" -> "+" [] op = "subtract" -> "-"
      [] op = "multiply" -> "*" [] op = "divide" -> "/"

\* C4: every successful arithmetic call returns the arithmetic result of its
\* operands and appends exactly one entry, as the last element of the
\* history, of the form "<a> <op> <b> = <result>" with its own operands,
\* operator symbol and the value it returns.
C4_ResultAndEntry ==
    [][(call'.op \in ArithOps /\ ret'.kind # "raise") =>
          LET a == call'.args[1]
              b == call'.args[2]
          IN  /\ IsResultOf(ret', call'.op, a, b)
              /\ History' = Append(History,
                    Str(IntVal(a)) \o " " \o Symbol(call'.op) \o " "
                        \o Str(IntVal(b)) \o " = " \o Str(ret'))
              /\ call' = [op |-> "add", args |-> <<2, 3>>]
                    => ret' = IntVal(5) /\ Last(History') = "2 + 3 = 5"
              /\ call' = [op |-> "subtract", args |-> <<0, 1>>]
                    => Last(History') = "0 - 1 = -1"
              /\ call' = [op |-> "multiply", args |-> <<-1, 1>>]
                    => Last(History') = "-1 * 1 = -1"
              /\ call' = [op |-> "divide", args |-> <<0, -1>>]
                    => Last(History') = "0 / -1 = -0.0"
              /\ call' = [op |-> "divide", args |-> <<1, 2>>]
                    => Last(History') = "1 / 2 = 0.5"]_vars

C4_Witness ==
    /\ call = [op |-> "divide", args |-> <<-1, 1>>]
    /\ ret = [kind |-> "float", neg |-> TRUE, num |-> 1, den |-> 1]
    /\ History = <<"1 + 1 = 2", "-1 / 1 = -1.0">>

\* C8: the history is changed only by the four arithmetic methods;
\* get_history leaves it unchanged and returns a separate copy, so appending
\* to, removing from or clearing a returned list changes neither the
\* Calculator's history nor any other returned list.
C8_GetHistoryReturnsCopy ==
    [][/\ History' # History => call'.op \in ArithOps
       /\ call'.op = "get_history" =>
             /\ History' = History
             /\ ret'.ref # 1
             /\ ret'.ref \notin Range(held')
             /\ heap'[ret'.ref] = History
       /\ call'.op \in CallerOps =>
             /\ History' = History
             /\ \A r \in 1..Len(heap) : r # held[1] => heap'[r] = heap[r]]_vars

\* the caller cleared its list while the Calculator's history and a list
\* from a later get_history call still hold the entry
C8_Witness ==
    /\ call.op = "h.clear"
    /\ held = <<2>>
    /\ heap[2] = <<>>
    /\ ret = [kind |-> "list", ref |-> 3]
    /\ heap[3] = History
    /\ History = <<"1 * 1 = 1">>

\* C5: every file handle __enter__ opens is closed by the time the block
\* that opened it has ended, normally or by an exception, re-entering the
\* same FileManager before it has exited included: a handle that is open
\* belongs to a block still running, so none is open once all have exited.
C5_HandlesClosedAfterBlocks ==
    \A h \in 1..Len(handles) :
        handles[h] = "open" => \E k \in 1..Len(blocks) : blocks[k].f = h

\* C6: fibonacci(n) returns exactly max(n, 0) terms, the first 0, the second
\* 1, every later one the sum of the two before it (fibonacci(5) is
\* [0,1,1,2,3], and [] for n <= 0), and the list for n is a prefix of the
\* list for n + 1.
C6_FibonacciTerms ==
    fib_pc = "done" =>
        /\ Len(fib) = IF fib_n > 0 THEN fib_n ELSE 0
        /\ Len(fib) >= 1 => fib[1] = 0
        /\ Len(fib) >= 2 => fib[2] = 1
        /\ \A k \in 3..Len(fib) : fib[k] = fib[k - 1] + fib[k - 2]
        /\ fib_n = 5 => fib = <<0, 1, 1, 2, 3>>
        /\ fib = Fibonacci(fib_n)
        /\ IsPrefix(fib, Fibonacci(fib_n + 1))

C6_Witness ==
    /\ fib_pc = "done"
    /\ fib_n = 10
    /\ fib = <<0, 1, 1, 2, 3, 5, 8, 13, 21, 34>>

\* n has no divisor d with 2 <= d < n
NoDivisor(n) == \A d \in 2..(n - 1) : n % d # 0

\* C7: find_primes(limit) returns, in strictly ascending order, exactly the
\* n with 2 <= n <= limit that have no divisor d with 2 <= d < n (none when
\* limit < 2): is_prime accepts no composite and rejects no prime.
C7_FindPrimesExact ==
    /\ pr_pc = "done" =>
          /\ \A j, k \in 1..Len(primes) : j < k => primes[j] < primes[k]
          /\ Range(primes) = {n \in 2..limit : NoDivisor(n)}
          /\ limit = 10 => primes = <<2, 3, 5, 7>>
    /\ pr_pc # "idle" => (is_prime(limit) <=> (limit >= 2 /\ NoDivisor(limit)))

C7_Witness ==
    /\ pr_pc = "done"
    /\ limit = 26
    /\ primes = <<2, 3, 5, 7, 11, 13, 17, 19, 23>>

\* the values a generator has yielded are start, start + step, ... in order,
\* each below end; once exhausted, the value after them is not below end
GenYieldsRight(g) ==
    LET G == gens[g] IN
    /\ \A k \in 1..Len(G.yielded) :
          G.yielded[k] = G.start + (k - 1) * G.step /\ G.yielded[k] < G.end
    /\ G.pc = "suspended" => G.yielded # <<>>
    /\ G.pc = "exhausted" =>
          /\ G.start + Len(G.yielded) * G.step >= G.end
          /\ G.step >= 1 \/ G.start >= G.end
    /\ G.start >= G.end => G.yielded = <<>>

GenIsFinite(g) ==
    /\ gens[g].pc # "none"
    /\ gens[g].step >= 1 \/ gens[g].start >= gens[g].end

\* C9: number_generator(start, end, step) yields, in order, exactly start,
\* start + step, ... while the current value is < end (nothing when
\* start >= end); it is exhausted after finitely many values if and only if
\* step >= 1 or start >= end; each call starts again from its own start,
\* whatever the generators of other calls have done.
C9_GeneratorValues ==
    /\ [](\A g \in Slots : GenYieldsRight(g))
    /\ \A g \in Slots : GenIsFinite(g) ~> (gens[g].pc = "exhausted")

\* g1 yielded 0 and is exhausted; g2, made by the same call later, has
\* yielded nothing yet
C9_Witness ==
    /\ gens["g1"].pc = "exhausted"
    /\ gens["g1"].start = 0 /\ gens["g1"].end = 2 /\ gens["g1"].step = 2
    /\ gens["g1"].yielded = <<0>>
    /\ gens["g2"].pc = "created"
    /\ gens["g2"].start = 0 /\ gens["g2"].end = 2 /\ gens["g2"].step = 2

=============================================================================
